---- MODULE Spec2Model ----
(***************************************************************************)
(* The restore-item-action gRPC bridge of pkg/plugin/restore_item_action.go *)
(* as a state machine: the caller-side stub (RestoreItemActionGRPCClient),  *)
(* the RPC channel, and the callee-side dispatcher                          *)
(* (RestoreItemActionGRPCServer) in front of the registered                 *)
(* implementations.                                                         *)
(*                                                                         *)
(* Go strings that the code builds by concatenation (error messages,        *)
(* warning texts) are sequences of pieces, "" is <<>>.  A Go error is       *)
(* [nil, msg]; a byte slice holding JSON is a sequence of tokens.           *)
(***************************************************************************)
EXTENDS Integers, Sequences, FiniteSets, TLC

\* Number of calls that can be in flight at the same time.
NCalls == 2

CallIds == 1..NCalls

----------------------------------------------------------------------------
\* Go values

NilErr == [nil |-> TRUE, msg |-> <<>>]

\* errors.New(m) / errors.Errorf: a non-nil error whose Error() is m.
NewError(m) == [nil |-> FALSE, msg |-> m]

\* A value of a Go type encoding/json cannot represent (a channel, a func).
Unsupported == "<chan>"

\* Structured documents: maps from keys to values.
Pod         == [kind |-> "Pod"]
PodOld      == [kind |-> "Pod", status |-> "old"]
PodRestored == [kind |-> "Pod", status |-> "restored"]
NoKind      == [status |-> "old"]
PodChan     == [kind |-> "Pod", status |-> Unsupported]
RestoreR1   == [name |-> "r1"]
RestoreChan == [name |-> Unsupported]

\* The keys of the documents above, in the byte order json.Marshal emits
\* map keys.
KeyOrder == <<"kind", "name", "status">>

----------------------------------------------------------------------------
\* encoding/json

RECURSIVE MarshalPairs(_, _)
MarshalPairs(d, i) ==
    IF i > Len(KeyOrder) THEN <<>>
    ELSE IF KeyOrder[i] \in DOMAIN d
         THEN <<KeyOrder[i], d[KeyOrder[i]]>> \o MarshalPairs(d, i + 1)
         ELSE MarshalPairs(d, i + 1)

JSONNull == <<"null">>

\* json.Marshal of a map / struct: fails on a value it cannot represent,
\* otherwise an object with its keys sorted.
Marshal(d) ==
    IF \E k \in DOMAIN d : d[k] = Unsupported
    THEN [err |-> NewError(<<"json: unsupported type: ", "chan int">>), bytes |-> <<>>]
    ELSE [err |-> NilErr, bytes |-> <<"{">> \o MarshalPairs(d, 1) \o <<"}">>]

\* Syntax check of the decoder: "{" key value ... "}".
WellFormedObject(b) ==
    /\ Len(b) >= 2
    /\ b[1] = "{"
    /\ b[Len(b)] = "}"
    /\ (Len(b) - 2) % 2 = 0

ObjectKeys(b) == { b[2 * i] : i \in 1..((Len(b) - 2) \div 2) }

ObjectValue(b, k) ==
    LET i == CHOOSE j \in 1..((Len(b) - 2) \div 2) : b[2 * j] = k
    IN  b[2 * i + 1]

\* json.Unmarshal into a map[string]interface{}.
UnmarshalMap(b) ==
    IF b = JSONNull
    THEN [err |-> NilErr, isNil |-> TRUE, doc |-> [kind |-> ""]]
    ELSE IF WellFormedObject(b)
    THEN [err |-> NilErr, isNil |-> FALSE,
          doc |-> [k \in ObjectKeys(b) |-> ObjectValue(b, k)]]
    ELSE [err |-> NewError(<<"unexpected end of JSON input">>), isNil |-> TRUE,
          doc |-> [kind |-> ""]]

ZeroDoc == [k \in {} |-> ""]

\* json.Unmarshal into an unstructured.Unstructured: its UnmarshalJSON decodes
\* the object and rejects a document without a "kind".
UnmarshalUnstructured(b) ==
    LET m == UnmarshalMap(b) IN
    IF ~m.err.nil THEN [err |-> m.err, obj |-> ZeroDoc]
    ELSE IF m.isNil \/ "kind" \notin DOMAIN m.doc \/ m.doc["kind"] = ""
    THEN [err |-> NewError(<<"Object 'Kind' is missing in '">> \o b \o <<"'">>),
          obj |-> ZeroDoc]
    ELSE [err |-> NilErr, obj |-> m.doc]

\* The fields of api.Restore that the documents above can set.
RestoreFields == {"kind", "name"}

\* json.Unmarshal into an api.Restore: null leaves the zero value, unknown
\* keys are dropped.
UnmarshalRestore(b) ==
    LET m == UnmarshalMap(b) IN
    IF ~m.err.nil THEN [err |-> m.err, obj |-> ZeroDoc]
    ELSE IF m.isNil THEN [err |-> NilErr, obj |-> ZeroDoc]
    ELSE [err |-> NilErr,
          obj |-> [k \in (DOMAIN m.doc) \cap RestoreFields |-> m.doc[k]]]

\* json.Marshal of a runtime.Unstructured interface value: a nil interface
\* is "null", otherwise the object's content.
MarshalUnstructured(isNil, u) ==
    IF isNil THEN [err |-> NilErr, bytes |-> JSONNull] ELSE Marshal(u)

----------------------------------------------------------------------------
\* velero / proto types

NilResponse == [nil |-> TRUE]

\* velero.ResourceSelector{}
EmptySelector ==
    [IncludedNamespaces |-> <<>>, ExcludedNamespaces |-> <<>>,
     IncludedResources |-> <<>>, ExcludedResources |-> <<>>,
     LabelSelector |-> ""]

\* (*velero.RestoreItemActionExecuteOutput)(nil)
NilOutput == [nil |-> TRUE]

ExecuteOutput(itemNil, item, warning) ==
    [nil |-> FALSE, itemNil |-> itemNil, UpdatedItem |-> item, Warning |-> warning]

----------------------------------------------------------------------------
\* client code

\* ClientExecuteRequest without the check of the restore's encoding error.
ClientExecuteRequestUnchecked(plugin, input) ==
    LET itemJSON           == Marshal(input.Item)
        itemFromBackupJSON == Marshal(input.ItemFromBackup)
        restoreJSON        == Marshal(input.Restore)
    IN  IF ~itemJSON.err.nil
        THEN [send |-> FALSE, err |-> itemJSON.err]
        ELSE IF ~itemFromBackupJSON.err.nil
        THEN [send |-> FALSE, err |-> itemFromBackupJSON.err]
        ELSE [send |-> TRUE, err |-> NilErr,
              req |-> [Plugin         |-> plugin,
                       Item           |-> itemJSON.bytes,
                       ItemFromBackup |-> itemFromBackupJSON.bytes,
                       Restore        |-> restoreJSON.bytes]]

\* RestoreItemActionGRPCClient.Execute up to the RPC: the three inputs are
\* encoded in turn, the first failure is returned and no request is built.
ClientExecuteRequest(plugin, input) ==
    LET itemJSON           == Marshal(input.Item)
        itemFromBackupJSON == Marshal(input.ItemFromBackup)
        restoreJSON        == Marshal(input.Restore)
    IN  IF ~itemJSON.err.nil
        THEN [send |-> FALSE, err |-> itemJSON.err]
        ELSE IF ~itemFromBackupJSON.err.nil
        THEN [send |-> FALSE, err |-> itemFromBackupJSON.err]
        ELSE IF ~restoreJSON.err.nil
        THEN [send |-> FALSE, err |-> restoreJSON.err]
        ELSE [send |-> TRUE, err |-> NilErr,
              req |-> [Plugin         |-> plugin,
                       Item           |-> itemJSON.bytes,
                       ItemFromBackup |-> itemFromBackupJSON.bytes,
                       Restore        |-> restoreJSON.bytes]]

\* ClientWarning with the test on the warning string inverted.
ClientWarningInverted(w) == IF w = <<>> THEN NewError(w) ELSE NilErr

\* The warning the stub rebuilds from the response's warning string.
ClientWarning(w) == IF w # <<>> THEN NewError(w) ELSE NilErr

\* ClientExecuteReturn handing out the output it was building together with
\* the decoding error.
ClientExecuteReturnPartial(res, err) ==
    IF ~err.nil THEN [out |-> NilOutput, err |-> err]
    ELSE LET updatedItem == UnmarshalUnstructured(res.Item) IN
         [out |-> ExecuteOutput(FALSE, updatedItem.obj, ClientWarning(res.Warning)),
          err |-> updatedItem.err]

\* RestoreItemActionGRPCClient.Execute from the RPC's return on.
ClientExecuteReturn(res, err) ==
    IF ~err.nil THEN [out |-> NilOutput, err |-> err]
    ELSE LET updatedItem == UnmarshalUnstructured(res.Item) IN
         IF ~updatedItem.err.nil THEN [out |-> NilOutput, err |-> updatedItem.err]
         ELSE [out |-> ExecuteOutput(FALSE, updatedItem.obj, ClientWarning(res.Warning)),
               err |-> NilErr]

\* ClientAppliesToReturn copying the namespace lists only.
ClientAppliesToReturnPartial(res, err) ==
    IF ~err.nil THEN [sel |-> EmptySelector, err |-> err]
    ELSE [sel |-> [IncludedNamespaces |-> res.IncludedNamespaces,
                   ExcludedNamespaces |-> res.ExcludedNamespaces,
                   IncludedResources  |-> <<>>,
                   ExcludedResources  |-> <<>>,
                   LabelSelector      |-> ""],
          err |-> NilErr]

\* ClientAppliesToReturn with the two resource lists crossed.
ClientAppliesToReturnCrossed(res, err) ==
    IF ~err.nil THEN [sel |-> EmptySelector, err |-> err]
    ELSE [sel |-> [IncludedNamespaces |-> res.IncludedNamespaces,
                   ExcludedNamespaces |-> res.ExcludedNamespaces,
                   IncludedResources  |-> res.ExcludedResources,
                   ExcludedResources  |-> res.IncludedResources,
                   LabelSelector      |-> res.Selector],
          err |-> NilErr]

\* RestoreItemActionGRPCClient.AppliesTo from the RPC's return on.
ClientAppliesToReturn(res, err) ==
    IF ~err.nil THEN [sel |-> EmptySelector, err |-> err]
    ELSE [sel |-> [IncludedNamespaces |-> res.IncludedNamespaces,
                   ExcludedNamespaces |-> res.ExcludedNamespaces,
                   IncludedResources  |-> res.IncludedResources,
                   ExcludedResources  |-> res.ExcludedResources,
                   LabelSelector      |-> res.Selector],
          err |-> NilErr]

----------------------------------------------------------------------------
\* server code

\* The objects registered with the server mux, by plugin name.  "other" holds
\* an object that is no velero.RestoreItemAction.
Registry ==
    [n \in {"p1", "p2", "other"} |->
        CASE n = "p1"    -> [type |-> "*M1", isAction |-> TRUE]
          [] n = "p2"    -> [type |-> "*M2", isAction |-> TRUE]
          [] n = "other" -> [type |-> "*BlockStore", isAction |-> FALSE]]

NoImpl == [type |-> "nil", isAction |-> FALSE]

\* serverMux.getHandler: the object registered under the name, or an error
\* naming the plugin.
getHandler(m, name) ==
    IF name \in DOMAIN m
    THEN [impl |-> m[name], err |-> NilErr]
    ELSE [impl |-> NoImpl, err |-> NewError(<<"unknown plugin: ", name>>)]

\* getImpl without the type assertion: whatever is registered is handed out.
getImplUnasserted(m, name) ==
    LET h == getHandler(m, name) IN
    IF ~h.err.nil THEN [impl |-> NoImpl, err |-> h.err]
    ELSE [impl |-> h.impl, err |-> NilErr]

\* getImpl falling back to the first registered action for a name the mux
\* does not know.
getImplFallback(m, name) ==
    LET h == getHandler(m, name) IN
    IF ~h.err.nil THEN [impl |-> m["p1"], err |-> NilErr]
    ELSE IF ~h.impl.isAction
    THEN [impl |-> NoImpl,
          err |-> NewError(<<h.impl.type, " is not a restore item action">>)]
    ELSE [impl |-> h.impl, err |-> NilErr]

getImpl(m, name) ==
    LET h == getHandler(m, name) IN
    IF ~h.err.nil THEN [impl |-> NoImpl, err |-> h.err]
    ELSE IF ~h.impl.isAction
    THEN [impl |-> NoImpl,
          err |-> NewError(<<h.impl.type, " is not a restore item action">>)]
    ELSE [impl |-> h.impl, err |-> NilErr]

\* What the body of a handler leaves when it stops: the values of the named
\* results, and the panic that is unwinding it, if any.
Return(response, err) ==
    [panicking |-> FALSE, p |-> "", response |-> response, err |-> err]

Panic(p) ==
    [panicking |-> TRUE, p |-> p, response |-> NilResponse, err |-> NilErr]

NilDeref == "runtime error: invalid memory address or nil pointer dereference"

\* The nil interface value as a panic value: panic(nil).
NilInterface == "<nil>"

\* recover() in the deferred function: the value of the panic it stops, nil
\* when there is no panic, and nil as well when the panic's value is nil.
recover(body) ==
    [some |-> body.panicking /\ body.p # NilInterface, val |-> body.p]

\* handlePanic: nil for no panic, otherwise an error with the panic value
\* and the stack.
handlePanic(recovered) ==
    IF ~recovered.some THEN NilErr
    ELSE NewError(<<"plugin panicked: ", recovered.val, "<stack>">>)

\* Deferred without the recover(): a panic keeps unwinding and ends the
\* process.
DeferredNoRecover(body) ==
    [response  |-> body.response,
     err       |-> body.err,
     recovered |-> FALSE,
     crashed   |-> body.panicking]

\* The deferred function of AppliesTo and Execute: recover() stops the panic,
\* and a recovered error replaces the err result.
Deferred(body) ==
    LET recoveredErr == handlePanic(recover(body)) IN
    [response  |-> body.response,
     err       |-> IF ~recoveredErr.nil THEN recoveredErr ELSE body.err,
     recovered |-> body.panicking,
     crashed   |-> FALSE]

\* DecodeExecute without the check of the restore's decoding error.
DecodeExecuteUnchecked(req) ==
    LET item           == UnmarshalUnstructured(req.Item)
        itemFromBackup == UnmarshalUnstructured(req.ItemFromBackup)
        restoreObj     == UnmarshalRestore(req.Restore)
    IN  IF ~item.err.nil THEN [err |-> item.err]
        ELSE IF ~itemFromBackup.err.nil THEN [err |-> itemFromBackup.err]
        ELSE [err |-> NilErr,
              input |-> [Item           |-> item.obj,
                         ItemFromBackup |-> itemFromBackup.obj,
                         Restore        |-> restoreObj.obj]]

\* DecodeExecute decoding the item from the backup's payload.
DecodeExecuteCrossed(req) ==
    LET item           == UnmarshalUnstructured(req.ItemFromBackup)
        itemFromBackup == UnmarshalUnstructured(req.ItemFromBackup)
        restoreObj     == UnmarshalRestore(req.Restore)
    IN  IF ~item.err.nil THEN [err |-> item.err]
        ELSE IF ~itemFromBackup.err.nil THEN [err |-> itemFromBackup.err]
        ELSE IF ~restoreObj.err.nil THEN [err |-> restoreObj.err]
        ELSE [err |-> NilErr,
              input |-> [Item           |-> item.obj,
                         ItemFromBackup |-> itemFromBackup.obj,
                         Restore        |-> restoreObj.obj]]

\* RestoreItemActionGRPCServer.Execute: decoding of the three payloads.
DecodeExecute(req) ==
    LET item           == UnmarshalUnstructured(req.Item)
        itemFromBackup == UnmarshalUnstructured(req.ItemFromBackup)
        restoreObj     == UnmarshalRestore(req.Restore)
    IN  IF ~item.err.nil THEN [err |-> item.err]
        ELSE IF ~itemFromBackup.err.nil THEN [err |-> itemFromBackup.err]
        ELSE IF ~restoreObj.err.nil THEN [err |-> restoreObj.err]
        ELSE [err |-> NilErr,
              input |-> [Item           |-> item.obj,
                         ItemFromBackup |-> itemFromBackup.obj,
                         Restore        |-> restoreObj.obj]]

\* WarnMessage of a handler that forgets the warning.
WarnMessageDropped(warning) == <<>>

\* The warning string of the response.
WarnMessage(warning) == IF ~warning.nil THEN warning.msg ELSE <<>>

\* ExecuteBody guarding the output: a missing output is answered with a null
\* item and no warning.
ExecuteBodyNilGuarded(o) ==
    IF o.panics THEN Panic(o.p)
    ELSE IF ~o.err.nil THEN Return(NilResponse, o.err)
    ELSE IF o.out.nil
    THEN Return([nil |-> FALSE, Item |-> JSONNull, Warning |-> <<>>], NilErr)
    ELSE LET updatedItem == MarshalUnstructured(o.out.itemNil, o.out.UpdatedItem) IN
         IF ~updatedItem.err.nil THEN Return(NilResponse, updatedItem.err)
         ELSE Return([nil     |-> FALSE,
                      Item    |-> updatedItem.bytes,
                      Warning |-> WarnMessage(o.out.Warning)], NilErr)

\* ExecuteBody testing the output instead of the error.
ExecuteBodyOutputFirst(o) ==
    IF o.panics THEN Panic(o.p)
    ELSE IF o.out.nil
    THEN IF ~o.err.nil THEN Return(NilResponse, o.err) ELSE Panic(NilDeref)
    ELSE LET updatedItem == MarshalUnstructured(o.out.itemNil, o.out.UpdatedItem) IN
         IF ~updatedItem.err.nil THEN Return(NilResponse, updatedItem.err)
         ELSE Return([nil     |-> FALSE,
                      Item    |-> updatedItem.bytes,
                      Warning |-> WarnMessage(o.out.Warning)], NilErr)

\* RestoreItemActionGRPCServer.Execute from impl.Execute's outcome on.
ExecuteBody(o) ==
    IF o.panics THEN Panic(o.p)
    ELSE IF ~o.err.nil THEN Return(NilResponse, o.err)
    ELSE IF o.out.nil THEN Panic(NilDeref)
    ELSE LET updatedItem == MarshalUnstructured(o.out.itemNil, o.out.UpdatedItem) IN
         IF ~updatedItem.err.nil THEN Return(NilResponse, updatedItem.err)
         ELSE Return([nil     |-> FALSE,
                      Item    |-> updatedItem.bytes,
                      Warning |-> WarnMessage(o.out.Warning)], NilErr)

\* RestoreItemActionGRPCServer.AppliesTo from impl.AppliesTo's outcome on.
AppliesToBody(o) ==
    IF o.panics THEN Panic(o.p)
    ELSE IF ~o.err.nil THEN Return(NilResponse, o.err)
    ELSE Return([nil                |-> FALSE,
                 IncludedNamespaces |-> o.sel.IncludedNamespaces,
                 ExcludedNamespaces |-> o.sel.ExcludedNamespaces,
                 IncludedResources  |-> o.sel.IncludedResources,
                 ExcludedResources  |-> o.sel.ExcludedResources,
                 Selector           |-> o.sel.LabelSelector], NilErr)

----------------------------------------------------------------------------
\* The RPC channel (grpcClient.AppliesTo / grpcClient.Execute)

\* What the client's RPC call returns for what the handler returned: an error
\* travels as a status whose description is the error's message, and comes
\* back without a response.
RPCReturn(srv) ==
    IF ~srv.err.nil
    THEN [res |-> NilResponse, err |-> NewError(<<"rpc error: desc = ">> \o srv.err.msg)]
    ELSE IF srv.response.nil
    THEN [res |-> NilResponse,
          err |-> NewError(<<"rpc error: desc = ", "grpc: error while marshaling">>)]
    ELSE [res |-> srv.response, err |-> NilErr]

\* The error of a call the channel could not complete.
Unavailable == NewError(<<"rpc error: desc = ", "transport is closing">>)

----------------------------------------------------------------------------
\* The environment: callers' inputs and implementations' behaviours

PluginNames == {"p1", "p2", "other", "nope"}

ExecuteInputs ==
    [Item           : {Pod, NoKind, PodChan},
     ItemFromBackup : {PodOld, NoKind, PodChan},
     Restore        : {RestoreR1, RestoreChan}]

GoodInput == [Item |-> Pod, ItemFromBackup |-> PodOld, Restore |-> RestoreR1]

Garbage == <<"{", "kind">>

\* Payloads of Execute envelopes sent by a client other than the stub.
RawPayloads ==
    LET ok == ClientExecuteRequest("", GoodInput).req IN
    { [Item |-> ok.Item, ItemFromBackup |-> ok.ItemFromBackup, Restore |-> ok.Restore],
      [Item |-> Garbage, ItemFromBackup |-> ok.ItemFromBackup, Restore |-> ok.Restore],
      [Item |-> ok.Item, ItemFromBackup |-> Garbage, Restore |-> ok.Restore],
      [Item |-> ok.Item, ItemFromBackup |-> ok.ItemFromBackup, Restore |-> Garbage],
      [Item |-> ok.Item, ItemFromBackup |-> ok.ItemFromBackup, Restore |-> JSONNull] }

S1 == [IncludedNamespaces |-> <<"ns1">>, ExcludedNamespaces |-> <<>>,
       IncludedResources |-> <<>>, ExcludedResources |-> <<"pods">>,
       LabelSelector |-> "app=foo"]

S2 == [IncludedNamespaces |-> <<"ns2", "ns1">>, ExcludedNamespaces |-> <<"kube-system">>,
       IncludedResources |-> <<"pvc", "pods">>, ExcludedResources |-> <<"secrets">>,
       LabelSelector |-> "x=y"]

Outcome(panics, p, err, out, sel) ==
    [panics |-> panics, p |-> p, err |-> err, out |-> out, sel |-> sel]

\* How a call of impl.AppliesTo can end.
AppliesToOutcomes ==
    { Outcome(FALSE, "", NilErr, NilOutput, S1),
      Outcome(FALSE, "", NilErr, NilOutput, S2),
      Outcome(FALSE, "", NewError(<<"E">>), NilOutput, EmptySelector),
      Outcome(TRUE, "boom", NilErr, NilOutput, EmptySelector),
      Outcome(TRUE, NilInterface, NilErr, NilOutput, EmptySelector) }

\* How a call of impl.Execute can end.
ExecuteOutcomes ==
    { Outcome(FALSE, "", NilErr, ExecuteOutput(FALSE, d, w), EmptySelector) :
        d \in {PodRestored, NoKind},
        w \in {NilErr, NewError(<<>>), NewError(<<"W">>)} }
    \cup
    { Outcome(FALSE, "", NilErr, ExecuteOutput(TRUE, ZeroDoc, NewError(<<"W">>)), EmptySelector),
      Outcome(FALSE, "", NilErr, ExecuteOutput(FALSE, PodChan, NilErr), EmptySelector),
      Outcome(FALSE, "", NewError(<<"E">>), NilOutput, EmptySelector),
      Outcome(FALSE, "", NewError(<<"E">>), ExecuteOutput(FALSE, PodRestored, NilErr),
              EmptySelector),
      Outcome(FALSE, "", NilErr, NilOutput, EmptySelector),
      Outcome(TRUE, "boom", NilErr, NilOutput, EmptySelector),
      Outcome(TRUE, NilInterface, NilErr, NilOutput, EmptySelector) }

\* The calls the callers make (who calls, with which plugin names and inputs)
\* and the ways the implementations' operations end.
FullLoad ==
    [callers |-> {1}, plugins |-> PluginNames, inputs |-> ExecuteInputs,
     raw |-> RawPayloads, rawPlugins |-> PluginNames,
     appliesTo |-> AppliesToOutcomes, execute |-> ExecuteOutcomes]

ConcLoad ==
    [callers |-> CallIds, plugins |-> {"p1", "p2"}, inputs |-> {GoodInput},
     raw |-> {CHOOSE r \in RawPayloads : r.Restore = Garbage}, rawPlugins |-> {"p1"},
     appliesTo |-> { o \in AppliesToOutcomes :
                       (o.panics /\ o.p = NilInterface) \/ o.sel = S1 },
     execute |-> { o \in ExecuteOutcomes :
                     \/ (o.panics /\ o.p # NilInterface)
                     \/ ~o.err.nil /\ o.out.nil
                     \/ o.err.nil /\ ~o.out.nil /\ ~o.out.itemNil
                          /\ o.out.UpdatedItem = PodRestored
                          /\ o.out.Warning = NewError(<<"W">>) }]

----------------------------------------------------------------------------
\* State

VARIABLES
    mux,          \* s.mux: plugin name -> registered object
    calls,        \* per call: its position and what it holds
    serverAlive,  \* the serving process has not been terminated
    load          \* which load the callers make: "full" or "conc"

vars == <<mux, calls, serverAlive, load>>

None == [none |-> TRUE]

IdleCall ==
    [st      |-> "idle",   \* idle, sent, Received, Resolved, Decoded, Invoked,
                           \* Failed, Completed, Recovered, returned
     via     |-> "",       \* "stub" or "raw"
     op      |-> "",       \* "AppliesTo" or "Execute"
     plugin  |-> "",
     input   |-> None,     \* the caller's arguments
     req     |-> None,     \* the request envelope
     impl    |-> None,     \* the implementation getImpl resolved
     args    |-> None,     \* the input impl.Execute was called with
     invoked |-> 0,        \* calls of the implementation made for this call
     implOut |-> None,     \* how the implementation's call ended
     srv     |-> None,     \* what the handler returned
     rpc     |-> None,     \* what the stub's RPC call returned
     ret     |-> None]     \* what the stub returned

InitCalls == [c \in CallIds |-> IdleCall]

Init ==
    /\ mux = Registry
    /\ calls = InitCalls
    /\ serverAlive = TRUE
    /\ load = "full"

InitConc ==
    /\ mux = Registry
    /\ calls = InitCalls
    /\ serverAlive = TRUE
    /\ load = "conc"

Load == IF load = "full" THEN FullLoad ELSE ConcLoad

Set(c, f) == calls' = [calls EXCEPT ![c] = f]

ServerStates == {"Received", "Resolved", "Decoded", "Invoked"}
ReturnedStates == {"Failed", "Completed", "Recovered"}

----------------------------------------------------------------------------
\* Caller side

\* The caller calls the stub's AppliesTo: the request is sent.
CallAppliesTo(c, plugin) ==
    /\ calls[c].st = "idle"
    /\ Set(c, [IdleCall EXCEPT !.st = "sent", !.via = "stub", !.op = "AppliesTo",
                               !.plugin = plugin, !.req = [Plugin |-> plugin]])
    /\ UNCHANGED <<mux, serverAlive, load>>

\* The caller calls the stub's Execute: the inputs are encoded and the request
\* is sent, or the call returns the encoding error.
CallExecute(c, plugin, input) ==
    /\ calls[c].st = "idle"
    /\ LET r == ClientExecuteRequest(plugin, input)
           k == [IdleCall EXCEPT !.via = "stub", !.op = "Execute", !.plugin = plugin,
                                 !.input = input]
       IN  IF r.send
           THEN Set(c, [k EXCEPT !.st = "sent", !.req = r.req])
           ELSE Set(c, [k EXCEPT !.st = "returned",
                                 !.ret = [out |-> NilOutput, err |-> r.err]])
    /\ UNCHANGED <<mux, serverAlive, load>>

\* Another client of the service sends an Execute envelope of its own.
RawExecute(c, plugin, payload) ==
    /\ calls[c].st = "idle"
    /\ Set(c, [IdleCall EXCEPT !.st = "sent", !.via = "raw", !.op = "Execute",
                               !.plugin = plugin,
                               !.req = [Plugin         |-> plugin,
                                        Item           |-> payload.Item,
                                        ItemFromBackup |-> payload.ItemFromBackup,
                                        Restore        |-> payload.Restore]])
    /\ UNCHANGED <<mux, serverAlive, load>>

\* What the stub returns for what the RPC call returned.
ClientReturn(k, rpc) ==
    IF k.via = "raw" THEN rpc
    ELSE IF k.op = "Execute" THEN ClientExecuteReturn(rpc.res, rpc.err)
    ELSE ClientAppliesToReturn(rpc.res, rpc.err)

\* The channel fails the call: the request or the reply is lost, or the
\* server is gone.
TransportFail(c) ==
    /\ \/ calls[c].st \in {"sent"} \cup ReturnedStates
       \/ calls[c].st \in ServerStates /\ ~serverAlive
    /\ LET rpc == [res |-> NilResponse, err |-> Unavailable] IN
       Set(c, [calls[c] EXCEPT !.st = "returned", !.rpc = rpc,
                               !.ret = ClientReturn(calls[c], rpc)])
    /\ UNCHANGED <<mux, serverAlive, load>>

\* StubReturn with a deadline of the bridge's own: a call the implementation
\* is still working on is given up with an error.
StubReturnTimeout(c) ==
    /\ calls[c].st \in ReturnedStates \cup {"Invoked"}
    /\ LET rpc == IF calls[c].st \in ReturnedStates THEN RPCReturn(calls[c].srv)
                  ELSE [res |-> NilResponse,
                        err |-> NewError(<<"rpc error: desc = ", "context deadline exceeded">>)] IN
       Set(c, [calls[c] EXCEPT !.st = "returned", !.rpc = rpc,
                               !.ret = ClientReturn(calls[c], rpc)])
    /\ UNCHANGED <<mux, serverAlive, load>>

\* The reply reaches the stub, which returns to its caller.
StubReturn(c) ==
    /\ calls[c].st \in ReturnedStates
    /\ LET rpc == RPCReturn(calls[c].srv) IN
       Set(c, [calls[c] EXCEPT !.st = "returned", !.rpc = rpc,
                               !.ret = ClientReturn(calls[c], rpc)])
    /\ UNCHANGED <<mux, serverAlive, load>>

\* The caller is done with the result; request and response are discarded.
Done(c) ==
    /\ calls[c].st = "returned"
    /\ Set(c, IdleCall)
    /\ UNCHANGED <<mux, serverAlive, load>>

----------------------------------------------------------------------------
\* Callee side: one handler goroutine per call

\* The handler's return: the deferred function has run; a panic it did not
\* stop terminates the process.
HandlerReturn(c, k, st, body) ==
    LET d == Deferred(body) IN
    /\ Set(c, [k EXCEPT !.st = IF d.recovered THEN "Recovered" ELSE st,
                        !.srv = [response |-> d.response, err |-> d.err]])
    /\ serverAlive' = (serverAlive /\ ~d.crashed)

\* The channel hands the request to AppliesTo or Execute.
Receive(c) ==
    /\ serverAlive
    /\ calls[c].st = "sent"
    /\ Set(c, [calls[c] EXCEPT !.st = "Received"])
    /\ UNCHANGED <<mux, serverAlive, load>>

\* Resolve handing out the registered object once: the entry is taken out of
\* the mux by the lookup.
ResolveConsuming(c) ==
    /\ serverAlive
    /\ calls[c].st = "Received"
    /\ LET r == getImpl(mux, calls[c].req.Plugin) IN
       IF ~r.err.nil
       THEN /\ HandlerReturn(c, calls[c], "Failed", Return(NilResponse, r.err))
            /\ mux' = mux
       ELSE /\ Set(c, [calls[c] EXCEPT !.st = "Resolved", !.impl = r.impl])
            /\ mux' = [n \in DOMAIN mux \ {calls[c].req.Plugin} |-> mux[n]]
            /\ UNCHANGED serverAlive
    /\ UNCHANGED load

\* Resolve with Execute's payloads decoded before the name is looked up.
ResolveDecodeFirst(c) ==
    /\ serverAlive
    /\ calls[c].st = "Received"
    /\ LET r == getImpl(mux, calls[c].req.Plugin)
           d == IF calls[c].op = "Execute" THEN DecodeExecute(calls[c].req)
                ELSE [input |-> None, err |-> NilErr] IN
       IF ~d.err.nil
       THEN HandlerReturn(c, calls[c], "Failed", Return(NilResponse, d.err))
       ELSE IF ~r.err.nil
       THEN HandlerReturn(c, calls[c], "Failed", Return(NilResponse, r.err))
       ELSE /\ Set(c, [calls[c] EXCEPT !.st = "Resolved", !.impl = r.impl])
            /\ UNCHANGED serverAlive
    /\ UNCHANGED <<mux, load>>

\* impl, err := s.getImpl(req.Plugin)
Resolve(c) ==
    /\ serverAlive
    /\ calls[c].st = "Received"
    /\ LET r == getImpl(mux, calls[c].req.Plugin) IN
       IF ~r.err.nil
       THEN HandlerReturn(c, calls[c], "Failed", Return(NilResponse, r.err))
       ELSE /\ Set(c, [calls[c] EXCEPT !.st = "Resolved", !.impl = r.impl])
            /\ UNCHANGED serverAlive
    /\ UNCHANGED <<mux, load>>

\* Execute decodes the three payloads.
Decode(c) ==
    /\ serverAlive
    /\ calls[c].st = "Resolved"
    /\ calls[c].op = "Execute"
    /\ LET r == DecodeExecute(calls[c].req) IN
       IF ~r.err.nil
       THEN HandlerReturn(c, calls[c], "Failed", Return(NilResponse, r.err))
       ELSE /\ Set(c, [calls[c] EXCEPT !.st = "Decoded", !.args = r.input])
            /\ UNCHANGED serverAlive
    /\ UNCHANGED <<mux, load>>

\* impl.AppliesTo() / impl.Execute(...) is called.
Invoke(c) ==
    /\ serverAlive
    /\ \/ calls[c].st = "Resolved" /\ calls[c].op = "AppliesTo"
       \/ calls[c].st = "Decoded" /\ calls[c].op = "Execute"
    /\ Set(c, [calls[c] EXCEPT !.st = "Invoked", !.invoked = @ + 1])
    /\ UNCHANGED <<mux, serverAlive, load>>

\* The implementation returns or panics; the handler finishes.
ImplReturn(c, o) ==
    /\ serverAlive
    /\ calls[c].st = "Invoked"
    /\ HandlerReturn(c, [calls[c] EXCEPT !.implOut = o], "Completed",
                     IF calls[c].op = "Execute" THEN ExecuteBody(o) ELSE AppliesToBody(o))
    /\ UNCHANGED <<mux, load>>

----------------------------------------------------------------------------

Next ==
    \/ \E c \in Load.callers, n \in Load.plugins : CallAppliesTo(c, n)
    \/ \E c \in Load.callers, n \in Load.plugins, i \in Load.inputs : CallExecute(c, n, i)
    \/ \E c \in Load.callers, n \in Load.rawPlugins, r \in Load.raw : RawExecute(c, n, r)
    \/ \E c \in CallIds : TransportFail(c)
    \/ \E c \in CallIds : StubReturn(c)
    \/ \E c \in CallIds : Done(c)
    \/ \E c \in CallIds : Receive(c)
    \/ \E c \in CallIds : Resolve(c)
    \/ \E c \in CallIds : Decode(c)
    \/ \E c \in CallIds : Invoke(c)
    \/ \E c \in CallIds : \E o \in IF calls[c].op = "Execute" THEN Load.execute
                                   ELSE Load.appliesTo : ImplReturn(c, o)

\* One caller, every plugin name and every input.
Spec == Init /\ [][Next]_vars

\* NCalls concurrent callers of the registered implementations.
SpecConc == InitConc /\ [][Next]_vars

\* What a call in flight can count on.  The channel delivers a sent request
\* or reports failure, and delivers the handler's reply or reports failure;
\* the handler's goroutine runs its own steps; the implementation that was
\* called returns or panics.  Nothing makes a caller start a call or take
\* its result.
Fairness ==
    \A c \in CallIds :
        /\ WF_vars(Receive(c) \/ TransportFail(c))
        /\ WF_vars(Resolve(c))
        /\ WF_vars(Decode(c))
        /\ WF_vars(Invoke(c))
        /\ WF_vars(\E o \in IF calls[c].op = "Execute" THEN Load.execute
                            ELSE Load.appliesTo : ImplReturn(c, o))
        /\ WF_vars(StubReturn(c) \/ TransportFail(c))

\* Spec with a channel that delivers or fails and implementations that end.
SpecFair == Init /\ [][Next]_vars /\ Fairness

----------------------------------------------------------------------------
\* Properties

\* The handler of the call has returned.
HandlerReturned(k) == k.srv # None

\* The stub's RPC call returned what the handler returned (the channel
\* delivered request and reply).
Delivered(k) == k.st = "returned" /\ HandlerReturned(k) /\ k.rpc = RPCReturn(k.srv)

\* The implementation's operation panicked during the call.
Faulted(k) == k.implOut # None /\ k.implOut.panics

\* The implementation's operation returned a value and no error.
ReturnedValue(k) ==
    /\ k.implOut # None
    /\ ~k.implOut.panics
    /\ k.implOut.err.nil
    /\ k.op = "Execute" => ~k.implOut.out.nil

\* One step of the handler of call c.
HandlerStep(c) ==
    \/ Resolve(c)
    \/ Decode(c)
    \/ Invoke(c)
    \/ \E o \in IF calls[c].op = "Execute" THEN Load.execute ELSE Load.appliesTo :
          ImplReturn(c, o)

C2_UnknownPlugin ==
    \A c \in CallIds :
        LET k == calls[c] IN
        (k.req # None /\ k.req.Plugin \notin DOMAIN mux) =>
            /\ k.invoked = 0
            /\ k.implOut = None
            /\ k.impl = None
            /\ k.st \in {"sent", "Received", "Failed", "returned"}
            /\ HandlerReturned(k) =>
                  /\ k.srv.response.nil
                  /\ ~k.srv.err.nil
                  /\ \E i \in 1..Len(k.srv.err.msg) : k.srv.err.msg[i] = k.req.Plugin
            /\ (Delivered(k) /\ k.via = "stub") => ~k.ret.err.nil

\* C2 witness: the handler has failed a call for the unregistered name.
C2_Witness ==
    \E c \in CallIds :
        /\ calls[c].st = "Failed"
        /\ calls[c].req.Plugin = "nope"
        /\ calls[c].op = "Execute"
        /\ calls[c].srv.err = NewError(<<"unknown plugin: ", "nope">>)

\* The call is one the stub's Execute made and has returned from.
StubExecuteReturned(k) == k.via = "stub" /\ k.op = "Execute" /\ k.st = "returned"

\* C3 as stated: for every response with a non-empty warning string W the
\* stub's Execute returns an updated item, the warning W and a nil error; for
\* an empty warning string it returns no warning.
C3_AsStated ==
    \A c \in CallIds :
        LET k == calls[c] IN
        (StubExecuteReturned(k) /\ k.rpc # None /\ k.rpc.err.nil) =>
            IF k.rpc.res.Warning # <<>>
            THEN /\ k.ret.err.nil
                 /\ ~k.ret.out.nil
                 /\ ~k.ret.out.itemNil
                 /\ ~k.ret.out.Warning.nil
                 /\ k.ret.out.Warning.msg = k.rpc.res.Warning
            ELSE k.ret.out.nil \/ k.ret.out.Warning.nil

\* C3, amended: when the response carries a non-empty warning string W and
\* an item payload that decodes, the stub's Execute returns the decoded item,
\* a non-nil warning with message W and a nil error; when the warning string
\* is empty the stub returns no warning.
C3_WarningPassthrough ==
    \A c \in CallIds :
        LET k == calls[c] IN
        (StubExecuteReturned(k) /\ k.rpc # None /\ k.rpc.err.nil) =>
            /\ (k.rpc.res.Warning # <<>> /\ UnmarshalUnstructured(k.rpc.res.Item).err.nil) =>
                 /\ k.ret.err.nil
                 /\ ~k.ret.out.nil
                 /\ ~k.ret.out.itemNil
                 /\ k.ret.out.UpdatedItem = UnmarshalUnstructured(k.rpc.res.Item).obj
                 /\ ~k.ret.out.Warning.nil
                 /\ k.ret.out.Warning.msg = k.rpc.res.Warning
            /\ k.rpc.res.Warning = <<>> => (k.ret.out.nil \/ k.ret.out.Warning.nil)

\* C3 witness: the stub has returned an item with the warning "W" of the
\* response.
C3_Witness ==
    \E c \in CallIds :
        /\ StubExecuteReturned(calls[c])
        /\ calls[c].rpc # None
        /\ calls[c].rpc.err.nil
        /\ calls[c].rpc.res.Warning = <<"W">>
        /\ calls[c].ret.err.nil
        /\ calls[c].ret.out.Warning = NewError(<<"W">>)
        /\ calls[c].ret.out.UpdatedItem = PodRestored

\* encode(D) then decode() yields D, for a document held in an Unstructured.
RoundTrips(d) ==
    LET m == Marshal(d) IN
    /\ m.err.nil
    /\ UnmarshalUnstructured(m.bytes) = [err |-> NilErr, obj |-> d]

\* The same for an api.Restore.
RestoreRoundTrips(d) ==
    LET m == Marshal(d) IN
    /\ m.err.nil
    /\ UnmarshalRestore(m.bytes) = [err |-> NilErr, obj |-> d]

\* The implementation's Execute returned an output with a warning, and no
\* error.
Warned(k) ==
    /\ k.op = "Execute"
    /\ ReturnedValue(k)
    /\ ~k.implOut.out.Warning.nil

\* C4 as stated: whenever the implementation's Execute returns a result with
\* a non-nil warning, whatever its message, the stub's caller gets the updated
\* item and a non-nil warning with the same message.
C4_AsStated ==
    \A c \in CallIds :
        LET k == calls[c] IN
        (k.via = "stub" /\ Delivered(k) /\ Warned(k)) =>
            /\ k.ret.err.nil
            /\ ~k.ret.out.nil
            /\ k.ret.out.UpdatedItem = k.implOut.out.UpdatedItem
            /\ ~k.ret.out.Warning.nil
            /\ k.ret.out.Warning.msg = k.implOut.out.Warning.msg

\* C4, amended: whenever the implementation's Execute returns an updated item
\* that survives the encode/decode round trip together with a warning whose
\* message is not empty, the stub's caller gets that item, a non-nil warning
\* with the same message and a nil error; and for every output whose item
\* encodes, the dispatcher's response carries the warning's message unchanged.
C4_WarningDelivered ==
    \A c \in CallIds :
        LET k == calls[c] IN
        /\ (HandlerReturned(k) /\ Warned(k)
              /\ MarshalUnstructured(k.implOut.out.itemNil, k.implOut.out.UpdatedItem).err.nil) =>
              /\ k.srv.err.nil
              /\ ~k.srv.response.nil
              /\ k.srv.response.Warning = k.implOut.out.Warning.msg
        /\ (k.via = "stub" /\ Delivered(k) /\ Warned(k)
              /\ k.implOut.out.Warning.msg # <<>>
              /\ ~k.implOut.out.itemNil
              /\ RoundTrips(k.implOut.out.UpdatedItem)) =>
              /\ k.ret.err.nil
              /\ ~k.ret.out.nil
              /\ k.ret.out.UpdatedItem = k.implOut.out.UpdatedItem
              /\ ~k.ret.out.Warning.nil
              /\ k.ret.out.Warning.msg = k.implOut.out.Warning.msg

\* C4 witness: the implementation returned the restored item with the
\* warning "W", and the stub's caller has received both.
C4_Witness ==
    \E c \in CallIds :
        /\ calls[c].via = "stub"
        /\ Delivered(calls[c])
        /\ Warned(calls[c])
        /\ calls[c].implOut.out.Warning = NewError(<<"W">>)
        /\ calls[c].implOut.out.UpdatedItem = PodRestored
        /\ calls[c].ret.out.Warning = NewError(<<"W">>)

\* The document holds a value the encoder cannot represent.
Unencodable(d) == \E key \in DOMAIN d : d[key] = Unsupported

\* C5: a stub Execute with an input that cannot be encoded returns an error
\* and no result, and no request of that call is ever sent: the call has no
\* envelope, never reaches the handler and its RPC never returns.
C5_SerializationShortCircuit ==
    \A c \in CallIds :
        LET k == calls[c] IN
        (k.via = "stub" /\ k.op = "Execute"
           /\ (Unencodable(k.input.Item) \/ Unencodable(k.input.ItemFromBackup)
                 \/ Unencodable(k.input.Restore))) =>
            /\ k.st = "returned"
            /\ ~k.ret.err.nil
            /\ k.ret.out.nil
            /\ k.req = None
            /\ k.rpc = None
            /\ k.srv = None
            /\ k.invoked = 0

\* C5 witness: item and item from backup encode, the restore does not, and
\* the call has returned the error.
C5_Witness ==
    \E c \in CallIds :
        /\ StubExecuteReturned(calls[c])
        /\ calls[c].input = [Item |-> Pod, ItemFromBackup |-> PodOld, Restore |-> RestoreChan]
        /\ ~calls[c].ret.err.nil

\* C6: every return of the stub's Execute is (item, nil warning, nil error),
\* (item, warning, nil error) or (no result, error): never a result with an
\* error, never neither.
C6_ThreeOutcomes ==
    \A c \in CallIds :
        LET k == calls[c] IN
        StubExecuteReturned(k) =>
            \/ /\ ~k.ret.out.nil
               /\ ~k.ret.out.itemNil
               /\ "kind" \in DOMAIN k.ret.out.UpdatedItem
               /\ k.ret.err.nil
            \/ /\ k.ret.out.nil
               /\ ~k.ret.err.nil

\* C6 witness: the remote side replied without error, the reply's item did
\* not decode, and the stub returned the error and no result.
C6_Witness ==
    \E c \in CallIds :
        /\ StubExecuteReturned(calls[c])
        /\ Delivered(calls[c])
        /\ calls[c].rpc.err.nil
        /\ calls[c].ret.out.nil
        /\ ~calls[c].ret.err.nil

\* The implementation's operation returned an error.
Erred(k) == k.implOut # None /\ ~k.implOut.panics /\ ~k.implOut.err.nil

\* The message s ends with the message t.
EndsWith(s, t) ==
    /\ Len(t) <= Len(s)
    /\ SubSeq(s, Len(s) - Len(t) + 1, Len(s)) = t

\* C7: error forwarding.  When the implementation's AppliesTo or Execute
\* returns an error, the handler returns no response and that error, message
\* unchanged; the stub's caller gets an error whose message carries that
\* message, and no result.
C7_ErrorForwarding ==
    \A c \in CallIds :
        LET k == calls[c] IN
        Erred(k) =>
            /\ HandlerReturned(k)
            /\ k.st \in {"Completed", "returned"}
            /\ k.srv.response.nil
            /\ k.srv.err = k.implOut.err
            /\ (k.via = "stub" /\ Delivered(k)) =>
                  /\ ~k.ret.err.nil
                  /\ EndsWith(k.ret.err.msg, k.implOut.err.msg)
                  /\ k.op = "Execute" => k.ret.out.nil
                  /\ k.op = "AppliesTo" => k.ret.sel = EmptySelector

\* C7 witness: the implementation's Execute returned an output together with
\* the error "E", and the stub's caller has received the error.
C7_Witness ==
    \E c \in CallIds :
        /\ calls[c].via = "stub"
        /\ calls[c].op = "Execute"
        /\ Delivered(calls[c])
        /\ Erred(calls[c])
        /\ ~calls[c].implOut.out.nil
        /\ calls[c].implOut.err = NewError(<<"E">>)
        /\ EndsWith(calls[c].ret.err.msg, <<"E">>)

\* One of the three payloads of the Execute request does not decode.
Undecodable(req) ==
    \/ ~UnmarshalUnstructured(req.Item).err.nil
    \/ ~UnmarshalUnstructured(req.ItemFromBackup).err.nil
    \/ ~UnmarshalRestore(req.Restore).err.nil

\* C8: decode failure on the dispatcher.  An Execute request with a payload
\* that does not decode never gets the implementation invoked, and its
\* handler returns no response and an error.
C8_DecodeFailure ==
    \A c \in CallIds :
        LET k == calls[c] IN
        (k.op = "Execute" /\ k.req # None /\ Undecodable(k.req)) =>
            /\ k.invoked = 0
            /\ k.args = None
            /\ k.implOut = None
            /\ k.st \in {"sent", "Received", "Resolved", "Failed", "returned"}
            /\ HandlerReturned(k) =>
                  /\ k.srv.response.nil
                  /\ ~k.srv.err.nil

\* C8 witness: the plugin was resolved, item and item from backup decode,
\* the restore does not, and the handler has failed the call.
C8_Witness ==
    \E c \in CallIds :
        /\ calls[c].st = "Failed"
        /\ calls[c].impl = mux["p1"]
        /\ UnmarshalUnstructured(calls[c].req.Item).err.nil
        /\ UnmarshalUnstructured(calls[c].req.ItemFromBackup).err.nil
        /\ calls[c].req.Restore = Garbage
        /\ ~calls[c].srv.err.nil

\* C9: the selector is transported unchanged.  For every selector the
\* implementation's AppliesTo returns without error, the stub's AppliesTo
\* returns a selector with the same five fields, each in its own field, and
\* a nil error.
C9_SelectorUnchanged ==
    \A c \in CallIds :
        LET k == calls[c] IN
        (k.via = "stub" /\ k.op = "AppliesTo" /\ Delivered(k) /\ ReturnedValue(k)) =>
            /\ k.ret.err.nil
            /\ k.ret.sel.IncludedNamespaces = k.implOut.sel.IncludedNamespaces
            /\ k.ret.sel.ExcludedNamespaces = k.implOut.sel.ExcludedNamespaces
            /\ k.ret.sel.IncludedResources = k.implOut.sel.IncludedResources
            /\ k.ret.sel.ExcludedResources = k.implOut.sel.ExcludedResources
            /\ k.ret.sel.LabelSelector = k.implOut.sel.LabelSelector

\* C9 witness: the implementation returned S2, whose five fields all differ
\* and two of which hold two elements, and the stub has returned.
C9_Witness ==
    \E c \in CallIds :
        /\ calls[c].via = "stub"
        /\ calls[c].op = "AppliesTo"
        /\ Delivered(calls[c])
        /\ ReturnedValue(calls[c])
        /\ calls[c].implOut.sel = S2
        /\ calls[c].ret.sel.IncludedNamespaces = <<"ns2", "ns1">>

\* C10: Execute through the bridge equals the local call.  For a stub call
\* under a registered action's name whose inputs the serializer round-trips,
\* the handler does not fail before the invocation, the implementation
\* registered under that name is invoked once with inputs equal to the
\* caller's, and when it returns an updated item (one the serializer
\* round-trips) without warning and the channel delivers the reply, the
\* caller gets that item, a nil warning and a nil error.
C10_EndToEnd ==
    \A c \in CallIds :
        LET k == calls[c] IN
        (/\ k.via = "stub"
         /\ k.op = "Execute"
         /\ k.plugin \in DOMAIN mux
         /\ mux[k.plugin].isAction
         /\ RoundTrips(k.input.Item)
         /\ RoundTrips(k.input.ItemFromBackup)
         /\ RestoreRoundTrips(k.input.Restore)) =>
            /\ k.st # "Failed"
            /\ k.st \in {"Invoked", "Completed", "Recovered"} =>
                  /\ k.invoked = 1
                  /\ k.impl = mux[k.plugin]
                  /\ k.args.Item = k.input.Item
                  /\ k.args.ItemFromBackup = k.input.ItemFromBackup
                  /\ k.args.Restore = k.input.Restore
            /\ Delivered(k) => k.invoked = 1 /\ k.args = k.input
            /\ (/\ Delivered(k)
                /\ ReturnedValue(k)
                /\ k.implOut.out.Warning.nil
                /\ ~k.implOut.out.itemNil
                /\ RoundTrips(k.implOut.out.UpdatedItem)) =>
                  /\ k.ret.err.nil
                  /\ ~k.ret.out.nil
                  /\ k.ret.out.UpdatedItem = k.implOut.out.UpdatedItem
                  /\ k.ret.out.Warning.nil

\* C10 witness: the spec's scenario.  Item {"kind":"Pod"}, item from backup
\* {"kind":"Pod","status":"old"}, restore r1, plugin p1; the implementation
\* returned {"kind":"Pod","status":"restored"} without warning and the caller
\* has received it.
C10_Witness ==
    \E c \in CallIds :
        /\ calls[c].via = "stub"
        /\ calls[c].plugin = "p1"
        /\ calls[c].input = GoodInput
        /\ Delivered(calls[c])
        /\ calls[c].args = GoodInput
        /\ ReturnedValue(calls[c])
        /\ calls[c].implOut.out.UpdatedItem = PodRestored
        /\ calls[c].implOut.out.Warning.nil
        /\ calls[c].ret = [out |-> ExecuteOutput(FALSE, PodRestored, NilErr), err |-> NilErr]

\* The call is one the stub's AppliesTo made and has returned from.
StubAppliesToReturned(k) == k.via = "stub" /\ k.op = "AppliesTo" /\ k.st = "returned"

\* C11: the stub's AppliesTo returns a fully populated selector with a nil
\* error, or a failure.  When its RPC call returned an error (the transport's
\* or the remote side's), it returns that very error with the empty
\* selector; otherwise it returns a nil error and a selector holding all five
\* fields of the response; never a selector with only some of them.
C11_SelectorOrFailure ==
    \A c \in CallIds :
        LET k == calls[c] IN
        StubAppliesToReturned(k) =>
            /\ k.rpc # None
            /\ IF ~k.rpc.err.nil
               THEN /\ k.ret.err = k.rpc.err
                    /\ k.ret.sel = EmptySelector
               ELSE /\ k.ret.err.nil
                    /\ k.ret.sel.IncludedNamespaces = k.rpc.res.IncludedNamespaces
                    /\ k.ret.sel.ExcludedNamespaces = k.rpc.res.ExcludedNamespaces
                    /\ k.ret.sel.IncludedResources = k.rpc.res.IncludedResources
                    /\ k.ret.sel.ExcludedResources = k.rpc.res.ExcludedResources
                    /\ k.ret.sel.LabelSelector = k.rpc.res.Selector

\* C11 witness: the remote AppliesTo failed after the implementation was
\* invoked, and the stub has returned the RPC's error with the empty selector.
C11_Witness ==
    \E c \in CallIds :
        /\ StubAppliesToReturned(calls[c])
        /\ Delivered(calls[c])
        /\ calls[c].invoked = 1
        /\ ~calls[c].rpc.err.nil
        /\ calls[c].ret = [sel |-> EmptySelector, err |-> calls[c].rpc.err]

\* The steps of a dispatcher call in their order; a failed call ends at 4 as
\* a completed or recovered one does.
StepRank(st) ==
    CASE st = "Received" -> 0
      [] st = "Resolved" -> 1
      [] st = "Decoded" -> 2
      [] st = "Invoked" -> 3
      [] OTHER -> 4

\* One step of Execute call c inside the dispatcher keeps the order.
ExecuteStepOrder(c) ==
    LET k == calls[c]
        n == calls'[c] IN
    (k.op = "Execute" /\ k.st \in ServerStates \cup ReturnedStates /\ n # k) =>
        /\ n.st \in ServerStates \cup ReturnedStates => StepRank(n.st) > StepRank(k.st)
        /\ n.st = "Resolved" => k.st = "Received" /\ n.impl # None
        /\ n.st = "Decoded" => k.st = "Resolved" /\ n.args # None
        /\ n.st = "Invoked" => k.st = "Decoded" /\ n.invoked = k.invoked + 1
        /\ n.st \in {"Completed", "Recovered"} => k.st = "Invoked"
        /\ n.st = "Failed" => k.st \in {"Received", "Resolved"}
        /\ n.st # "Invoked" => n.invoked = k.invoked

\* What an Execute call has gone through, read from its record.
ExecuteStepsTaken(k) ==
    k.op = "Execute" =>
        /\ k.invoked <= 1
        /\ k.st \in {"idle", "sent", "Received"} => k.invoked = 0 /\ k.impl = None
        /\ k.st \in {"Resolved", "Decoded"} => k.invoked = 0
        /\ k.invoked = 1 =>
              /\ getImpl(mux, k.req.Plugin) = [impl |-> k.impl, err |-> NilErr]
              /\ DecodeExecute(k.req) = [input |-> k.args, err |-> NilErr]
        /\ k.st \in {"Invoked", "Completed", "Recovered"} => k.invoked = 1
        /\ (HandlerReturned(k) /\ k.req.Plugin \notin DOMAIN mux /\ Undecodable(k.req)) =>
              /\ k.srv = [response |-> NilResponse,
                          err |-> NewError(<<"unknown plugin: ", k.req.Plugin>>)]
              /\ k.invoked = 0

\* C12: an Execute call on the dispatcher moves only forward through
\* Received, Resolved, (payloads decoded,) Invoked and then Completed or
\* Recovered; the implementation is invoked at most once per call, only
\* after the name was resolved and then all three payloads were decoded; a
\* request with an unknown plugin name and an undecodable payload fails with
\* the unknown-plugin error.
C12_StepOrder ==
    /\ [](\A c \in CallIds : ExecuteStepsTaken(calls[c]))
    /\ [][\A c \in CallIds : ExecuteStepOrder(c)]_vars

\* C12 witness: a request naming an unknown plugin whose item payload does not
\* decode has failed with the unknown-plugin error.
C12_Witness ==
    \E c \in CallIds :
        /\ calls[c].op = "Execute"
        /\ calls[c].st = "Failed"
        /\ calls[c].req.Plugin = "nope"
        /\ ~UnmarshalUnstructured(calls[c].req.Item).err.nil
        /\ calls[c].srv.err = NewError(<<"unknown plugin: ", "nope">>)
        /\ calls[c].invoked = 0

\* The call's name lookup has been made and found a restore item action.
LookedUp(k) == k.st \in (ServerStates \ {"Received"}) \cup {"Completed", "Recovered"}

\* The call's name lookup has been made and failed.
LookupFailed(k) == k.st = "Failed" /\ k.impl = None

\* C13: name resolution is deterministic and read-only.  No step of any call,
\* successful, failed or recovered from a fault, changes the registry; every
\* lookup made by a call gave what the registry holds under the name (the
\* implementation, or the error for that name), so two calls that looked up
\* the same name got the same implementation, whatever ran before or
\* concurrently.
C13_LookupReadOnly ==
    /\ [][mux' = mux]_vars
    /\ [](\A c \in CallIds :
            LET k == calls[c] IN
            /\ LookedUp(k) => k.req.Plugin \in DOMAIN Registry
                              /\ k.impl = Registry[k.req.Plugin]
            /\ LookupFailed(k) => k.srv.err = getImpl(Registry, k.req.Plugin).err
                                  /\ ~k.srv.err.nil)
    /\ [](\A c, d \in CallIds :
            (LookedUp(calls[c]) /\ LookedUp(calls[d])
               /\ calls[c].req.Plugin = calls[d].req.Plugin)
            => calls[c].impl = calls[d].impl)

\* C13 witness: one call has been recovered from a fault of an implementation
\* while another call has resolved the same name to the same implementation.
C13_Witness ==
    \E c, d \in CallIds :
        /\ c # d
        /\ calls[c].st = "Recovered"
        /\ Faulted(calls[c])
        /\ calls[d].st = "Resolved"
        /\ calls[d].req.Plugin = calls[c].req.Plugin
        /\ calls[d].impl = Registry[calls[c].req.Plugin]
        /\ mux = Registry

\* The stub's call c returns in this step.
StubReturns(c) ==
    calls'[c].via = "stub" /\ calls'[c].st = "returned" /\ calls[c].st # "returned"

\* Why the stub's call c returns in this step: the remote side has replied,
\* or the transport has reported failure, or the request was never sent
\* because an input of Execute could not be encoded.
ReturnCause(c) ==
    LET k == calls[c]
        n == calls'[c] IN
    \/ /\ k.st \in ReturnedStates
       /\ n.rpc = RPCReturn(k.srv)
       /\ n.ret = ClientReturn(k, n.rpc)
    \/ /\ k.st # "idle"
       /\ n.rpc = [res |-> NilResponse, err |-> Unavailable]
       /\ n.ret = ClientReturn(k, n.rpc)
    \/ /\ k.st = "idle"
       /\ n.op = "Execute"
       /\ n.rpc = None
       /\ ~ClientExecuteRequest(n.plugin, n.input).send
       /\ n.ret = [out |-> NilOutput, err |-> ClientExecuteRequest(n.plugin, n.input).err]

\* C14 as stated: the stub's Execute and AppliesTo return only after the
\* remote side has replied or the transport has reported failure, so every
\* call the stub has returned from holds what its RPC call returned.
C14_AsStated ==
    \A c \in CallIds :
        (calls[c].via = "stub" /\ calls[c].st = "returned") => calls[c].rpc # None

\* C14: a call of the stub whose request was sent returns only after the
\* remote side has replied or the transport has reported failure (an Execute
\* whose input cannot be encoded returns at once, nothing sent); the bridge
\* gives up no call on its own; and every call made eventually returns, given
\* that the transport delivers or fails and the implementation returns or
\* faults.
C14_BlockingReturn ==
    /\ [][\A c \in CallIds : StubReturns(c) => ReturnCause(c)]_vars
    /\ \A c \in CallIds : (calls[c].st # "idle") ~> (calls[c].st = "returned")

\* C14 witness: the stub's Execute has returned with the reply of a handler
\* that invoked the implementation and got its result.
C14_Witness ==
    \E c \in CallIds :
        /\ calls[c].via = "stub"
        /\ calls[c].op = "Execute"
        /\ Delivered(calls[c])
        /\ calls[c].st = "returned"
        /\ calls[c].invoked = 1
        /\ calls[c].implOut # None
        /\ calls[c].ret = ClientReturn(calls[c], RPCReturn(calls[c].srv))

\* C15: every return of the dispatcher's AppliesTo and Execute carries
\* exactly one of a response and an error: a response with a nil error, or an
\* error (one made by recovering a fault included) with a nil response;
\* never both, never neither.
C15_ExactlyOne ==
    \A c \in CallIds :
        HandlerReturned(calls[c]) =>
            (calls[c].srv.response.nil # calls[c].srv.err.nil)

\* C15 witness: the implementation panicked with a nil value and the handler
\* has returned neither a response nor an error.
C15_Witness ==
    \E c \in CallIds :
        /\ calls[c].st = "Recovered"
        /\ Faulted(calls[c])
        /\ calls[c].implOut.p = NilInterface
        /\ calls[c].srv = [response |-> NilResponse, err |-> NilErr]

\* The implementation's Execute returned for this call with neither an
\* output nor an error.
ReturnedNothing(k) ==
    /\ k.op = "Execute"
    /\ k.implOut # None
    /\ ~k.implOut.panics
    /\ k.implOut.err.nil
    /\ k.implOut.out.nil

\* C16: when the implementation's Execute returns a nil output and a nil
\* error, the dispatcher's Execute returns no response: reading the missing
\* output panics under the deferred recover, the call ends with the error
\* made from that panic, and the server stays alive.
C16_NilOutputRecovered ==
    \A c \in CallIds :
        LET k == calls[c] IN
        ReturnedNothing(k) =>
            /\ k.st \in {"Recovered", "returned"}
            /\ k.srv = [response |-> NilResponse,
                        err |-> NewError(<<"plugin panicked: ", NilDeref, "<stack>">>)]
            /\ k.st = "returned" => ~k.rpc.err.nil
            /\ serverAlive

\* C16 witness: the implementation returned (nil, nil) and the handler has
\* ended with the recovered nil dereference.
C16_Witness ==
    \E c \in CallIds :
        /\ ReturnedNothing(calls[c])
        /\ calls[c].st = "Recovered"
        /\ calls[c].invoked = 1
        /\ calls[c].srv.response.nil
        /\ calls[c].srv.err.msg[2] = NilDeref

\* The call names a plugin whose registered object is not a restore item
\* action.
NamesOtherKind(k) ==
    /\ k.req # None
    /\ k.req.Plugin \in DOMAIN mux
    /\ ~mux[k.req.Plugin].isAction

\* C17: when the object registered under the requested name does not
\* implement the restore item action operations, the dispatcher's AppliesTo
\* and Execute fail with an error naming the object's type and no response,
\* and no operation is invoked on the object.
C17_NotARestoreItemAction ==
    \A c \in CallIds :
        LET k == calls[c] IN
        NamesOtherKind(k) =>
            /\ k.invoked = 0
            /\ k.impl = None
            /\ k.implOut = None
            /\ k.st \in {"sent", "Received", "Failed", "returned"}
            /\ HandlerReturned(k) =>
                  k.srv = [response |-> NilResponse,
                           err |-> NewError(<<mux[k.req.Plugin].type,
                                              " is not a restore item action">>)]

\* C17 witness: an AppliesTo call for the name of a registered object of
\* another kind has failed with the error naming the object's type.
C17_Witness ==
    \E c \in CallIds :
        /\ NamesOtherKind(calls[c])
        /\ calls[c].op = "AppliesTo"
        /\ calls[c].st = "Failed"
        /\ calls[c].srv.err.msg = <<"*BlockStore", " is not a restore item action">>
        /\ calls[c].invoked = 0

====
